---- MODULE Spec2Model ----
(***************************************************************************)
(* Model of bowen0701/mleip: the two logistic-regression trainers of       *)
(* logistic_regression.py (LogisticRegression on numpy arrays,             *)
(* LogisticRegressionTF on a TensorFlow graph and session), the script's   *)
(* entry point main, and the dataset adapter of data_torch.py.             *)
(*                                                                         *)
(* Numbers.  Array elements are kept in binary fixed point: the integer v  *)
(* stands for the real number v / FxOne.  np.exp and np.log are tabulated  *)
(* on that grid (rounded to nearest), so exp underflows to 0 below the     *)
(* grid's resolution as the double does below its own.  The range of the   *)
(* double itself (overflow to inf, underflow to 0.0, absorption of a small *)
(* term by 1.0) is modelled separately for _sigmoid, see Exp64.            *)
(***************************************************************************)
EXTENDS Integers, Sequences, FiniteSets, TLC

VARIABLES
    kind,          \* "np": LogisticRegression, "tf": LogisticRegressionTF
    batch_size,    \* self._batch_size
    lr,            \* self._lr / self._learning_rate (fixed point)
    n_epochs,      \* self._n_epochs
    X_in,          \* the caller's feature array (rows of fixed-point numbers)
    y_in,          \* the caller's label array (0/1)
    shuffle,       \* the shuffle argument of the last get_dataset call
    X_train,       \* self._X_train
    y_train,       \* self._y_train
    n_examples,    \* self._n_examples
    n_inputs,      \* self._n_inputs
    w,             \* self._w (<<>> while the attribute does not exist)
    b,             \* self._b
    cross_entropy, \* self._cross_entropy (np) / value of the loss tensor (tf)
    pc,            \* where the trainer's caller / fit stands
    epoch,         \* loop variable of fit
    i,             \* loop variable of the _fetch_batch generator
    total_loss,    \* local of fit
    out,           \* lines printed by fit
    sess,          \* the tf.Session of LogisticRegressionTF.fit
    yielded,       \* index lists the generator has yielded in this epoch
    batch,         \* the (X, y) pair the generator yielded last
    n_updates,     \* parameter updates done by the running fit
    n_shuffles,    \* calls of random.shuffle so far
    fits,          \* calls of fit so far
    main,          \* the run of main()
    runs,          \* two runs of the script (process starts)
    ds,            \* a CustomDataset and the result of its last call
    sg             \* a logit and the result of _sigmoid on it

trainerVars == <<kind, batch_size, lr, n_epochs, X_in, y_in, shuffle, X_train,
                 y_train, n_examples, n_inputs, w, b, cross_entropy, pc, epoch,
                 i, total_loss, out, sess, yielded, batch, n_updates,
                 n_shuffles, fits>>
vars == <<trainerVars, main, runs, ds, sg>>

-----------------------------------------------------------------------------
(* Bounds of the model *)
MaxExamples == 3
MaxBatch == 2
MaxEpochs == 2
MaxFits == 2

-----------------------------------------------------------------------------
(* Fixed-point arithmetic *)

FxOne == 16

Max(a, c) == IF a >= c THEN a ELSE c
Min(a, c) == IF a <= c THEN a ELSE c

\* a / c rounded to the nearest integer, c > 0
RoundDiv(a, c) == (2 * a + c) \div (2 * c)

\* product and quotient of two fixed-point numbers
FxMul(a, c) == RoundDiv(a * c, FxOne)
FxDiv(a, c) == RoundDiv(a * FxOne, c)

\* FxOne * exp(-k / FxOne) for k = 0 .. 56, rounded
ExpNegTab ==
    <<16, 15, 14, 13, 12, 12, 11, 10, 10, 9, 9, 8, 8, 7, 7, 6, 6, 6, 5,
      5, 5, 4, 4, 4, 4, 3, 3, 3, 3, 3, 2, 2, 2, 2, 2, 2, 2, 2, 1, 1, 1,
      1, 1, 1, 1, 1, 1, 1, 1, 1, 1, 1, 1, 1, 1, 1, 0>>

\* FxOne * exp(k / FxOne) for k = 1 .. 80, rounded
ExpPosTab ==
    <<17, 18, 19, 21, 22, 23, 25, 26, 28, 30, 32, 34, 36, 38, 41, 43,
      46, 49, 52, 56, 59, 63, 67, 72, 76, 81, 86, 92, 98, 104, 111, 118,
      126, 134, 143, 152, 162, 172, 183, 195, 207, 221, 235, 250, 266,
      284, 302, 321, 342, 364, 388, 413, 439, 468, 498, 530, 564, 600,
      639, 680, 724, 771, 821, 874, 930, 990, 1054, 1122, 1194, 1271,
      1353, 1440, 1533, 1632, 1737, 1849, 1969, 2096, 2231, 2375>>

\* FxOne * ln(v / FxOne) for v = FxOne .. 2 * FxOne, rounded
LogTab == <<0, 1, 2, 3, 4, 4, 5, 6, 6, 7, 8, 8, 9, 10, 10, 11, 11>>

\* np.exp on the grid; arguments above the table are not used by the trainers
ExpFx(x) ==
    IF x <= 0
    THEN IF -x < Len(ExpNegTab) THEN ExpNegTab[1 - x] ELSE 0
    ELSE ExpPosTab[Min(x, Len(ExpPosTab))]

\* np.log on the grid, for arguments in [1, 2]
LogFx(v) == LogTab[v - FxOne + 1]

\* np.sum of a column
SumOf[s \in Seq(Int)] == IF s = <<>> THEN 0 ELSE Head(s) + SumOf[Tail(s)]
SeqSum(s) == SumOf[s]

\* np.mean of a column
Mean(s) == RoundDiv(SeqSum(s), Len(s))

-----------------------------------------------------------------------------
(* LogisticRegression: the numerical operators *)

Zeros(n) == [j \in 1..n |-> 0]

\* _logit of one row x under weights ww and bias bb: x . w + b
RowLogit(x, ww, bb) == SeqSum([j \in 1..Len(x) |-> FxMul(x[j], ww[j])]) + bb

\* _logit: np.matmul(X, w) + b
Logit(X, ww, bb) == [r \in 1..Len(X) |-> RowLogit(X[r], ww, bb)]

\* _sigmoid on one logit, by the stabilization trick
Sigmoid(logit) ==
    LET at[z \in Int] ==
            LET logit_max == Max(0, z)
                logit_stable == z - logit_max
            IN  FxDiv(ExpFx(logit_stable),
                      ExpFx(-logit_max) + ExpFx(logit_stable))
    IN  at[logit]

\* _model
Model(X, ww, bb) == [r \in 1..Len(X) |-> Sigmoid(RowLogit(X[r], ww, bb))]

\* the per-example cross entropy _loss stores in self._cross_entropy
CrossEntropy(y, logit) ==
    [r \in 1..Len(y) |->
        LET z == logit[r]
            logit_max == Max(0, z)
            logit_stable == z - logit_max
            logsumexp_stable ==
                logit_max + LogFx(ExpFx(-logit_max) + ExpFx(logit_stable))
        IN  -(y[r] * (z - logsumexp_stable)
              + (1 - y[r]) * (-logsumexp_stable))]

\* _loss: the mean of the cross entropy
Loss(y, logit) == Mean(CrossEntropy(y, logit))

\* _optimize: one gradient step on the batch (X, y); returns <<w, b>>
Optimize(X, y, ww, bb, rate) ==
    LET m == Len(X)
        y_hat(r) == Sigmoid(RowLogit(X[r], ww, bb))
        err(r) == y[r] * FxOne - y_hat(r)
        dw(j) == -RoundDiv(SeqSum([r \in 1..m |-> FxMul(X[r][j], err(r))]), m)
        db == -Mean([r \in 1..m |-> err(r)])
    IN  <<[j \in 1..Len(ww) |-> ww[j] - FxMul(rate, dw(j))],
          bb - FxMul(rate, db)>>

-----------------------------------------------------------------------------
(* Arrays and index lists *)

\* list(range(n)): the 0-based positions 0 .. n-1
Range(n) == [k \in 1..n |-> k - 1]

\* Python's idx[lo:hi] on a list, 0 <= lo
Slice(idx, lo, hi) ==
    LET h == Min(hi, Len(idx))
    IN  IF lo >= h THEN <<>> ELSE [k \in 1..(h - lo) |-> idx[lo + k]]

\* A[idx] / A.take(idx, axis=0): the rows of A at the 0-based positions idx
Take(A, idx) == [r \in 1..Len(idx) |-> A[idx[r] + 1]]

Swap(x, a, c) == [x EXCEPT ![a] = x[c], ![c] = x[a]]

\* random.shuffle(x) with the generator of module random in state g:
\*   for i in reversed(range(1, len(x))): j = randbelow(i + 1); swap x[i], x[j]
\* Every draw consumes generator state: randbelow(k) returns g % k and leaves
\* g \div k.  ShuffleFrom does the rounds i, i-1, .. 1 (0-based positions).
RECURSIVE ShuffleFrom(_, _, _)
ShuffleFrom(x, pos, g) ==
    IF pos < 1 THEN x
    ELSE ShuffleFrom(Swap(x, pos + 1, (g % (pos + 1)) + 1), pos - 1,
                     g \div (pos + 1))
PyShuffle(x, g) == ShuffleFrom(x, Len(x) - 1, g)

RECURSIVE Factorial(_)
Factorial(n) == IF n <= 1 THEN 1 ELSE n * Factorial(n - 1)

\* the orders random.shuffle can leave the list idx in when the generator's
\* state is not known: one per residue of the state the draws consume
Shuffles(idx) == {PyShuffle(idx, g) : g \in 0..(Factorial(Len(idx)) - 1)}

-----------------------------------------------------------------------------
(* _fetch_batch and fit as functions of the stored arrays *)

\* a _fetch_batch whose batch starts one example early
FetchIdxOverlap(n, bs, pos) == Slice(Range(n), Max(pos - 1, 0), Min(pos + bs, n))

\* the index list _fetch_batch yields at generator position pos:
\* idx[i:min(i + batch_size, n_examples)]
FetchIdx(n, bs, pos) == Slice(Range(n), pos, Min(pos + bs, n))

\* the batch loop of one epoch from generator position pos on, p = <<w, b>>
TrainEpoch(X, y, bs, rate, p, pos) ==
    LET from[a \in (Seq(Int) \X Int) \X Nat] ==
            IF a[2] >= Len(X) THEN a[1]
            ELSE LET idx_batch == FetchIdx(Len(X), bs, a[2])
                 IN  from[<<Optimize(Take(X, idx_batch), Take(y, idx_batch),
                                     a[1][1], a[1][2], rate),
                            a[2] + bs>>]
    IN  from[<<p, pos>>]

\* the epoch loop: e epochs from parameters p
TrainEpochs(X, y, bs, rate, p, e) ==
    LET left[a \in (Seq(Int) \X Int) \X Nat] ==
            IF a[2] = 0 THEN a[1]
            ELSE left[<<TrainEpoch(X, y, bs, rate, a[1], 0), a[2] - 1>>]
    IN  left[<<p, e>>]

\* LogisticRegression.fit as a whole: <<w, b>> when it returns
FitResult(X, y, n_in, bs, rate, epochs) ==
    TrainEpochs(X, y, bs, rate, <<Zeros(n_in), 0>>, epochs)

\* the parameters after each update of one epoch, from position pos on
RECURSIVE EpochTraj(_, _, _, _, _, _)
EpochTraj(X, y, bs, rate, p, pos) ==
    IF pos >= Len(X) THEN <<>>
    ELSE LET idx_batch == FetchIdx(Len(X), bs, pos)
             q == Optimize(Take(X, idx_batch), Take(y, idx_batch),
                           p[1], p[2], rate)
         IN  <<q>> \o EpochTraj(X, y, bs, rate, q, pos + bs)

\* the parameters after each update of e epochs from parameters p
RECURSIVE EpochsTraj(_, _, _, _, _, _)
EpochsTraj(X, y, bs, rate, p, e) ==
    IF e = 0 THEN <<>>
    ELSE LET t == EpochTraj(X, y, bs, rate, p, 0)
             q == IF t = <<>> THEN p ELSE t[Len(t)]
         IN  t \o EpochsTraj(X, y, bs, rate, q, e - 1)

\* LogisticRegression.fit: <<w, b>> after its first, second, .. update
FitTraj(X, y, n_in, bs, rate, epochs) ==
    EpochsTraj(X, y, bs, rate, <<Zeros(n_in), 0>>, epochs)

\* predict, then the caller's (p > 0.5) * 1
PredictLabels(X, p) ==
    LET prob == Model(X, p[1], p[2])
    IN  [r \in 1..Len(X) |-> IF 2 * prob[r] > FxOne THEN 1 ELSE 0]

-----------------------------------------------------------------------------
(* The data a caller passes: distinct rows, so that an order is visible *)

NumInputs == 2

Feature(k, j) == FxOne * (IF (k + j) % 2 = 0 THEN k ELSE -k)
DataX(n) == [k \in 1..n |-> [j \in 1..NumInputs |-> Feature(k, j)]]
DataY(n) == [k \in 1..n |-> k % 2]

\* learning rates a caller passes: 1 (as main does) and 0.5
LrVals == {FxOne, FxOne \div 2}

\* tf.random_normal_initializer(0, 0.01) under the graph seed reset_tf_graph
\* sets: one fixed draw per weight, of standard deviation 0.01, far below the
\* grid's step 1 / FxOne, so every weight starts at the grid's 0
RandomNormalInit(n) == [j \in 1..n |-> 0]

-----------------------------------------------------------------------------
(* The trainers: LogisticRegression and LogisticRegressionTF *)

Idle == [pc |-> "idle"]

\* __init__ of either trainer, with the caller's data at hand
Init ==
    /\ kind \in {"np", "tf"}
    /\ batch_size \in 1..MaxBatch
    /\ lr \in LrVals
    /\ n_epochs \in 0..MaxEpochs
    /\ \E n \in 0..MaxExamples : X_in = DataX(n) /\ y_in = DataY(n)
    /\ shuffle = FALSE
    /\ X_train = <<>> /\ y_train = <<>>
    /\ n_examples = 0 /\ n_inputs = 0
    /\ w = <<>> /\ b = 0 /\ cross_entropy = <<>>
    /\ pc = "constructed"
    /\ epoch = 0 /\ i = 0 /\ total_loss = 0
    /\ out = <<>>
    /\ sess = "none"
    /\ yielded = <<>> /\ batch = <<>>
    /\ n_updates = 0 /\ n_shuffles = 0 /\ fits = 0
    /\ main = Idle /\ runs = Idle /\ ds = Idle /\ sg = Idle

\* a get_dataset that shuffles whatever the caller asked
LoadOrdersAlways(sh, n) == Shuffles(Range(n))

\* the index lists get_dataset can index the arrays with: list(range(n)),
\* after random.shuffle when shuffle is set
LoadOrders(sh, n) == IF sh THEN Shuffles(Range(n)) ELSE {Range(n)}

\* a get_dataset that forgets to reorder the labels
ReorderFeaturesOnly(X, y, idx) == <<Take(X, idx), y>>

\* X_train[idx], y_train[idx]: both arrays indexed by the one list idx.  (The
\* np trainer skips the indexing when shuffle is off and keeps the caller's
\* arrays themselves: the same rows in the same order.)
Reorder(X, y, idx) == <<Take(X, idx), Take(y, idx)>>

\* get_dataset(X_train, y_train, shuffle=sh)
GetDataset(sh) ==
    /\ pc = "constructed"
    /\ shuffle' = sh
    /\ n_examples' = Len(X_in)
    /\ n_inputs' = NumInputs
    /\ \E idx \in LoadOrders(sh, Len(X_in)) :
          /\ X_train' = Reorder(X_in, y_in, idx)[1]
          /\ y_train' = Reorder(X_in, y_in, idx)[2]
    /\ n_shuffles' = IF sh THEN n_shuffles + 1 ELSE n_shuffles
    /\ pc' = IF kind = "np" THEN "ready" ELSE "loaded"
    /\ UNCHANGED <<kind, batch_size, lr, n_epochs, X_in, y_in, w, b,
                   cross_entropy, epoch, i, total_loss, out, sess, yielded,
                   batch, n_updates, fits, main, runs, ds, sg>>

\* LogisticRegressionTF.build_graph
BuildGraph ==
    /\ pc = "loaded"
    /\ pc' = "ready"
    /\ UNCHANGED <<kind, batch_size, lr, n_epochs, X_in, y_in, shuffle, X_train,
                   y_train, n_examples, n_inputs, w, b, cross_entropy, epoch, i,
                   total_loss, out, sess, yielded, batch, n_updates, n_shuffles,
                   fits, main, runs, ds, sg>>

\* a _create_weights that keeps parameters an earlier fit left
CreateWeightsKeep == IF w = <<>> THEN <<Zeros(n_inputs), 0>> ELSE <<w, b>>

\* _create_weights (np): zeros; the initializers run in the session (tf)
CreateWeights ==
    IF kind = "np" THEN <<Zeros(n_inputs), 0>>
    ELSE <<RandomNormalInit(n_inputs), 0>>

\* fit, up to its epoch loop: _create_weights (np); the session is entered
\* and the variables are initialized (tf)
FitCall ==
    /\ pc \in {"ready", "returned"}
    /\ fits < MaxFits
    /\ fits' = fits + 1
    /\ sess' = IF kind = "np" THEN sess ELSE "open"
    /\ w' = CreateWeights[1]
    /\ b' = CreateWeights[2]
    /\ epoch' = 0
    /\ n_updates' = 0
    /\ pc' = "loop"
    /\ UNCHANGED <<kind, batch_size, lr, n_epochs, X_in, y_in, shuffle, X_train,
                   y_train, n_examples, n_inputs, cross_entropy, i, total_loss,
                   out, yielded, batch, n_shuffles, main, runs, ds, sg>>

\* an epoch loop that stops one epoch short
MoreEpochsShort == epoch < n_epochs - 1

\* for epoch in range(self._n_epochs): is there another epoch
MoreEpochs == epoch < n_epochs

\* for epoch in range(n_epochs): the next epoch starts; _fetch_batch() makes
\* its generator
EpochBegin ==
    /\ pc = "loop"
    /\ MoreEpochs
    /\ total_loss' = 0
    /\ i' = 0
    /\ yielded' = <<>>
    /\ pc' = "batches"
    /\ UNCHANGED <<kind, batch_size, lr, n_epochs, X_in, y_in, shuffle, X_train,
                   y_train, n_examples, n_inputs, w, b, cross_entropy, epoch,
                   out, sess, batch, n_updates, n_shuffles, fits, main, runs,
                   ds, sg>>

\* the index list _fetch_batch yields at generator position pos
IdxBatch(pos) == FetchIdx(n_examples, batch_size, pos)

\* one pass of the batch loop: _fetch_batch yields the next batch and the
\* body of the loop trains on it
TrainStep ==
    /\ pc = "batches"
    /\ i < n_examples
    /\ kind = "tf" => sess = "open"
    /\ \E idx_batch \in {IdxBatch(i)} :
       \E X_train_b \in {Take(X_train, idx_batch)} :
       \E y_train_b \in {Take(y_train, idx_batch)} :
       \E new \in {Optimize(X_train_b, y_train_b, w, b, lr)} :
       \* np: the loss after the update; tf: the loss tensor of the forward
       \* pass the update was computed from
       \E at \in {IF kind = "np" THEN new ELSE <<w, b>>} :
       \E logit \in {Logit(X_train_b, at[1], at[2])} :
           /\ batch' = <<X_train_b, y_train_b>>
           /\ yielded' = Append(yielded, idx_batch)
           /\ w' = new[1]
           /\ b' = new[2]
           /\ cross_entropy' = CrossEntropy(y_train_b, logit)
           /\ total_loss' = total_loss + Loss(y_train_b, logit) * Len(X_train_b)
    /\ i' = i + batch_size
    /\ n_updates' = n_updates + 1
    /\ UNCHANGED <<kind, batch_size, lr, n_epochs, X_in, y_in, shuffle, X_train,
                   y_train, n_examples, n_inputs, pc, epoch, out, sess,
                   n_shuffles, fits, main, runs, ds, sg>>

\* a session closed by a plain sess.close() after the loop, not by a with block
SessionOnExitNoWith(raised) == IF raised THEN sess ELSE "closed"

\* with tf.Session() as sess: the session's state when the block is left,
\* by an exception (raised) or by running off its end
SessionOnExit(raised) == "closed"

\* sess.run raises in a training step: the with block closes the session and
\* the error leaves fit
TrainStepRaises ==
    /\ pc = "batches"
    /\ i < n_examples
    /\ kind = "tf"
    /\ sess' = SessionOnExit(TRUE)
    /\ pc' = "failed"
    /\ UNCHANGED <<kind, batch_size, lr, n_epochs, X_in, y_in, shuffle, X_train,
                   y_train, n_examples, n_inputs, w, b, cross_entropy, epoch, i,
                   total_loss, out, yielded, batch, n_updates, n_shuffles, fits,
                   main, runs, ds, sg>>

\* the generator is exhausted: the epoch's loss line (every 100th epoch), then
\* the next round of the epoch loop.  The tf variant divides by n_examples.
EpochEnd ==
    /\ pc = "batches"
    /\ i >= n_examples
    /\ IF epoch % 100 = 0 /\ kind = "tf" /\ n_examples = 0
       THEN \* ZeroDivisionError inside the with block
            /\ sess' = SessionOnExit(TRUE)
            /\ pc' = "failed"
            /\ UNCHANGED <<out, epoch>>
       ELSE /\ out' = IF epoch % 100 # 0 THEN out
                      ELSE IF kind = "np"
                           THEN Append(out, <<epoch, total_loss>>)
                           ELSE Append(out, <<epoch,
                                              RoundDiv(total_loss, n_examples)>>)
            /\ epoch' = epoch + 1
            /\ pc' = "loop"
            /\ sess' = sess
    /\ UNCHANGED <<kind, batch_size, lr, n_epochs, X_in, y_in, shuffle, X_train,
                   y_train, n_examples, n_inputs, w, b, cross_entropy, i,
                   total_loss, yielded, batch, n_updates, n_shuffles, fits,
                   main, runs, ds, sg>>

\* the epoch loop is over: fit returns (np: return self; tf: the with block
\* closes the session, and the variables' values go with it)
FitReturn ==
    /\ pc = "loop"
    /\ ~MoreEpochs
    /\ pc' = "returned"
    /\ IF kind = "np"
       THEN UNCHANGED <<sess, w, b>>
       ELSE sess' = SessionOnExit(FALSE) /\ w' = <<>> /\ b' = 0
    /\ UNCHANGED <<kind, batch_size, lr, n_epochs, X_in, y_in, shuffle, X_train,
                   y_train, n_examples, n_inputs, cross_entropy, epoch, i,
                   total_loss, out, yielded, batch, n_updates, n_shuffles, fits,
                   main, runs, ds, sg>>

Next ==
    \/ \E sh \in BOOLEAN : GetDataset(sh)
    \/ BuildGraph
    \/ FitCall
    \/ EpochBegin
    \/ TrainStep
    \/ TrainStepRaises
    \/ EpochEnd
    \/ FitReturn

Spec == Init /\ [][Next]_vars

\* fit runs on one thread without suspension points: once called it keeps going
FitProgress == EpochBegin \/ TrainStep \/ EpochEnd \/ FitReturn
FairSpec == Spec /\ WF_vars(FitProgress)

-----------------------------------------------------------------------------
(* Properties of the trainers *)

InFit == pc \in {"loop", "batches"}
Exhausted == pc = "batches" /\ i >= n_examples
CeilDiv(a, c) == (a + c - 1) \div c

RECURSIVE Concat(_)
Concat(ss) == IF ss = <<>> THEN <<>> ELSE Head(ss) \o Concat(Tail(ss))

\* C1: one pass of _fetch_batch (either trainer) yields contiguous batches that
\* partition the stored order: batch k holds exactly the positions
\* k*batch_size .. min((k+1)*batch_size, n_examples)-1 (k from 0), no batch is
\* empty, every batch but the last has batch_size examples, and when the
\* generator is exhausted every position 0 .. n_examples-1 has appeared once,
\* in increasing order.
C1_BatchesPartition ==
    pc = "batches" =>
        /\ \A k \in 1..Len(yielded) :
              /\ yielded[k] = [j \in 1..(Min(k * batch_size, n_examples)
                                          - (k - 1) * batch_size) |->
                                  (k - 1) * batch_size + j - 1]
              /\ Len(yielded[k]) >= 1
              /\ Len(yielded[k]) <= batch_size
              /\ k < Len(yielded) => Len(yielded[k]) = batch_size
        /\ yielded # <<>> =>
              batch = <<Take(X_train, yielded[Len(yielded)]),
                        Take(y_train, yielded[Len(yielded)])>>
        /\ Exhausted => Concat(yielded) = Range(n_examples)

\* a pass that ended with a short last batch after a full one
C1_Witness ==
    /\ Exhausted
    /\ Len(yielded) >= 2
    /\ Len(yielded[Len(yielded)]) < batch_size

\* C2: LogisticRegression.fit always terminates, after exactly n_epochs epochs
\* and exactly n_epochs * ceil(n_examples / batch_size) parameter updates, and
\* the learning rate never changes from the value given at construction.
C2_FitTerminatesExactly ==
    /\ [](kind = "np" /\ InFit => <>(pc = "returned"))
    /\ [](kind = "np" /\ pc = "returned" =>
            /\ epoch = n_epochs
            /\ n_updates = n_epochs * CeilDiv(n_examples, batch_size))
    /\ [](kind = "np" => pc # "failed")
    /\ [][lr' = lr]_vars

\* a fit that returned after two epochs of two batches each, the last one short
C2_Witness ==
    /\ kind = "np" /\ pc = "returned"
    /\ n_epochs = 2 /\ n_examples = 3 /\ batch_size = 2
    /\ n_updates = 4

\* C3 as stated: with shuffling enabled the order is shuffled once in each
\* epoch, before that epoch's batches are formed: by the time an epoch's batches
\* are formed there has been one shuffle for every epoch started so far.
C3_ShuffledEachEpoch ==
    shuffle /\ pc = "batches" => n_shuffles = (fits - 1) * n_epochs + epoch + 1

\* C3 amended: with shuffling enabled the order is shuffled once, in
\* get_dataset, and fit never reorders: every epoch of every fit partitions
\* that one stored order; with shuffling disabled the stored order, hence every
\* epoch's, is the caller's original order.
C3_ShuffledOnceAtLoad ==
    /\ [](n_shuffles = IF shuffle THEN 1 ELSE 0)
    /\ [](pc # "constructed" /\ ~shuffle => X_train = X_in /\ y_train = y_in)
    /\ [][InFit => X_train' = X_train /\ y_train' = y_train
                   /\ n_shuffles' = n_shuffles]_vars

\* a second epoch running on an order the one shuffle changed
C3_Witness ==
    /\ shuffle /\ pc = "batches" /\ epoch >= 1 /\ yielded # <<>>
    /\ X_train # X_in

\* C6: in LogisticRegressionTF.fit the session is open from before the first
\* training step, no training step runs without it, and it is closed on every
\* exit from fit: on return after the last epoch and when a step raises.
C6_SessionScoped ==
    kind = "tf" =>
        /\ InFit => sess = "open"
        /\ pc \in {"returned", "failed"} => sess = "closed"
        /\ pc \in {"constructed", "loaded"} => sess = "none"
        /\ pc = "ready" => sess \in {"none", "closed"}

\* a training step raised after an earlier one had run, and the session is closed
C6_Witness ==
    /\ kind = "tf" /\ pc = "failed" /\ sess = "closed"
    /\ n_updates >= 1 /\ i < n_examples

\* C8: every call of LogisticRegression.fit starts from n_inputs zero weights
\* and a zero bias, whatever an earlier fit left, so the parameters after fit
\* are those of a fit from zero on the stored order with the hyperparameters:
\* a second fit in a row leaves what the first one left.
C8_FitFromZero ==
    kind = "np" =>
        /\ pc = "loop" /\ epoch = 0 => w = Zeros(n_inputs) /\ b = 0
        /\ pc = "returned" =>
              <<w, b>> = FitResult(X_train, y_train, n_inputs, batch_size, lr,
                                   n_epochs)

\* the second fit in a row has returned, with parameters that moved
C8_Witness ==
    /\ kind = "np" /\ pc = "returned" /\ fits = 2
    /\ n_updates >= 2
    /\ w # Zeros(n_inputs)

\* C10: get_dataset (either trainer, shuffle on or off) stores the caller's
\* rows rearranged by one permutation applied to features and labels alike:
\* nothing dropped or duplicated, row counts equal to n_examples, the caller's
\* arrays unchanged; and every batch of every epoch pairs each row with the
\* label it came with.
C10_Aligned ==
    /\ X_in = DataX(Len(X_in)) /\ y_in = DataY(Len(y_in))
    /\ pc # "constructed" =>
          /\ \E idx \in Shuffles(Range(Len(X_in))) :
                X_train = Take(X_in, idx) /\ y_train = Take(y_in, idx)
          /\ Len(X_train) = n_examples /\ Len(y_train) = n_examples
          /\ n_examples = Len(X_in)
    /\ batch # <<>> =>
          /\ Len(batch[1]) = Len(batch[2])
          /\ \A r \in 1..Len(batch[1]) :
                \E k \in 1..Len(X_in) :
                    batch[1][r] = X_in[k] /\ batch[2][r] = y_in[k]

\* a batch of a later epoch, taken from a shuffled order
C10_Witness ==
    /\ shuffle /\ pc = "batches" /\ epoch >= 1 /\ yielded # <<>>
    /\ X_train # X_in /\ y_train # y_in
    /\ Len(batch[1]) = 2

-----------------------------------------------------------------------------
(* Two runs of the script on the same data with the same hyperparameters *)

\* the seed of np.random.seed and reset_tf_graph
Seed == 71

\* states the generator of module random can start a process in: the module
\* seeds it from the operating system when it is imported
MaxEntropy == 5

\* the trainer variables while no trainer is being followed
TrainerIdle ==
    /\ kind = "np" /\ batch_size = 1 /\ lr = FxOne /\ n_epochs = 0
    /\ X_in = <<>> /\ y_in = <<>> /\ shuffle = FALSE
    /\ X_train = <<>> /\ y_train = <<>>
    /\ n_examples = 0 /\ n_inputs = 0
    /\ w = <<>> /\ b = 0 /\ cross_entropy = <<>>
    /\ pc = "idle"
    /\ epoch = 0 /\ i = 0 /\ total_loss = 0
    /\ out = <<>>
    /\ sess = "none"
    /\ yielded = <<>> /\ batch = <<>>
    /\ n_updates = 0 /\ n_shuffles = 0 /\ fits = 0

RunStart(g) ==
    [pc |-> "start", rng |-> g, np_seed |-> -1, tf_seed |-> -1,
     X |-> <<>>, y |-> <<>>, traj |-> <<>>, X_tf |-> <<>>, y_tf |-> <<>>]

RunsInit ==
    /\ TrainerIdle
    /\ \E n \in 0..MaxExamples, bs \in 1..MaxBatch, g1, g2 \in 0..MaxEntropy :
          runs = [n |-> n, bs |-> bs, rate |-> FxOne, epochs |-> MaxEpochs,
                  run |-> <<RunStart(g1), RunStart(g2)>>]
    /\ main = Idle /\ ds = Idle /\ sg = Idle

\* import of the module: np.random.seed(71).  The generator of module random
\* is a different one and keeps the state the process started it in.
RunImport(r) ==
    /\ runs.run[r].pc = "start"
    /\ runs' = [runs EXCEPT !.run[r].pc = "imported", !.run[r].np_seed = Seed]
    /\ UNCHANGED <<trainerVars, main, ds, sg>>

\* the run's stored arrays after get_dataset(.., shuffle=True): random.shuffle
\* draws from the generator of module random
RunShuffled(r) ==
    LET idx == PyShuffle(Range(runs.n), runs.run[r].rng)
    IN  Reorder(DataX(runs.n), DataY(runs.n), idx)

\* LogisticRegression(..).get_dataset(X, y, shuffle=True)
RunGetDataset(r) ==
    /\ runs.run[r].pc = "imported"
    /\ runs' = [runs EXCEPT !.run[r].pc = "loaded",
                            !.run[r].X = RunShuffled(r)[1],
                            !.run[r].y = RunShuffled(r)[2],
                            !.run[r].rng = @ \div Factorial(runs.n)]
    /\ UNCHANGED <<trainerVars, main, ds, sg>>

\* fit, with the parameters after every update recorded
RunFit(r) ==
    /\ runs.run[r].pc = "loaded"
    /\ runs' = [runs EXCEPT !.run[r].pc = "fitted",
                            !.run[r].traj =
                                FitTraj(runs.run[r].X, runs.run[r].y, NumInputs,
                                        runs.bs, runs.rate, runs.epochs)]
    /\ UNCHANGED <<trainerVars, main, ds, sg>>

\* reset_tf_graph(): tf.set_random_seed(71); np.random.seed(71)
RunResetTfGraph(r) ==
    /\ runs.run[r].pc = "fitted"
    /\ runs' = [runs EXCEPT !.run[r].pc = "tf_reset",
                            !.run[r].tf_seed = Seed,
                            !.run[r].np_seed = Seed]
    /\ UNCHANGED <<trainerVars, main, ds, sg>>

\* LogisticRegressionTF().get_dataset(X, y): shuffle defaults to True
RunGetDatasetTF(r) ==
    /\ runs.run[r].pc = "tf_reset"
    /\ runs' = [runs EXCEPT !.run[r].pc = "tf_loaded",
                            !.run[r].X_tf = RunShuffled(r)[1],
                            !.run[r].y_tf = RunShuffled(r)[2],
                            !.run[r].rng = @ \div Factorial(runs.n)]
    /\ UNCHANGED <<trainerVars, main, ds, sg>>

RunsNext ==
    \E r \in 1..2 :
        \/ RunImport(r)
        \/ RunGetDataset(r)
        \/ RunFit(r)
        \/ RunResetTfGraph(r)
        \/ RunGetDatasetTF(r)

RunsSpec == RunsInit /\ [][RunsNext]_vars

\* C4: two runs of get_dataset(shuffle=True) and fit on the same data with the
\* same hyperparameters and the seed the module sets (71) end with the same
\* shuffled order, hence the same batches in every epoch and the same weights
\* and bias after every update; and so for the order the tf trainer stores.
C4_SameSeedSameRun ==
    LET a == runs.run[1]
        c == runs.run[2]
        Fitted == {"fitted", "tf_reset", "tf_loaded"}
    IN  /\ a.pc \in Fitted /\ c.pc \in Fitted /\ a.np_seed = c.np_seed =>
              a.X = c.X /\ a.y = c.y /\ a.traj = c.traj
        /\ a.pc = "tf_loaded" /\ c.pc = "tf_loaded" /\ a.tf_seed = c.tf_seed =>
              a.X_tf = c.X_tf /\ a.y_tf = c.y_tf

-----------------------------------------------------------------------------
(* main(): the script's entry point.  The trainer variables follow logreg,   *)
(* then logreg_tf; the trainers' own actions are the calls main makes.       *)

\* rows of the data set main loads (load_breast_cancer has 569)
MainRows == 5

\* epochs main trains the np model for (1000 in the source)
MainEpochs == 3

\* test_ratio = 0.2, in percent
TestRatioPct == 20

\* batch_size main passes, and the default of LogisticRegressionTF
MainBatchSize == 64

\* learning_rate=0.01, the default of LogisticRegressionTF, on the grid
TfLearningRate == RoundDiv(FxOne, 100)

\* Python's a[:-t] and a[-t:] for t >= 0 (-0 is 0: a[:0] is empty, a[0:] is a)
SliceToMinus(a, t) == IF t = 0 THEN <<>> ELSE SubSeq(a, 1, Max(Len(a) - t, 0))
SliceFromMinus(a, t) ==
    IF t = 0 THEN a ELSE SubSeq(a, Max(Len(a) - t, 0) + 1, Len(a))

\* metrics.accuracy(y_true, y_pred): how many predicted labels equal the true
\* ones, out of how many
Accuracy(y_true, y_pred) ==
    <<Cardinality({r \in 1..Len(y_true) : y_true[r] = y_pred[r]}), Len(y_true)>>

MainInit ==
    /\ TrainerIdle
    /\ main = [pc |-> "start", X_train |-> <<>>, y_train |-> <<>>,
               X_test |-> <<>>, y_test |-> <<>>, tf_seed |-> -1,
               np_seed |-> Seed, reports |-> <<>>]
    /\ runs = Idle /\ ds = Idle /\ sg = Idle

\* lines 220-235: the data is loaded, scaled and split
MainLoad ==
    /\ main.pc = "start"
    /\ LET data == DataX(MainRows)
           label == DataY(MainRows)
           test_size == (MainRows * TestRatioPct) \div 100
       IN  main' = [main EXCEPT !.pc = "split",
                                !.X_train = SliceToMinus(data, test_size),
                                !.X_test = SliceFromMinus(data, test_size),
                                !.y_train = SliceToMinus(label, test_size),
                                !.y_test = SliceFromMinus(label, test_size)]
    /\ UNCHANGED <<trainerVars, runs, ds, sg>>

\* a trainer of class k right after __init__, about to be given X and y
Construct(k, bs, rate, epochs, X, y) ==
    /\ kind' = k
    /\ batch_size' = bs
    /\ lr' = rate
    /\ n_epochs' = epochs
    /\ X_in' = X /\ y_in' = y
    /\ shuffle' = FALSE
    /\ X_train' = <<>> /\ y_train' = <<>>
    /\ n_examples' = 0 /\ n_inputs' = 0
    /\ w' = <<>> /\ b' = 0 /\ cross_entropy' = <<>>
    /\ pc' = "constructed"
    /\ epoch' = 0 /\ i' = 0 /\ total_loss' = 0
    /\ out' = <<>>
    /\ sess' = "none"
    /\ yielded' = <<>> /\ batch' = <<>>
    /\ n_updates' = 0 /\ n_shuffles' = 0 /\ fits' = 0

\* line 238: logreg = LogisticRegression(batch_size=64, lr=1, n_epochs=1000)
MainNewLogreg ==
    /\ main.pc = "split"
    /\ main' = [main EXCEPT !.pc = "np"]
    /\ Construct("np", MainBatchSize, FxOne, MainEpochs,
                 main.X_train, main.y_train)
    /\ UNCHANGED <<runs, ds, sg>>

\* lines 239-240 and 252-254: get_dataset (shuffle on), build_graph, fit, as
\* the trainer does them; fit is called once
MainTrainer ==
    /\ main.pc \in {"np", "tf"}
    /\ \/ GetDataset(TRUE)
       \/ BuildGraph
       \/ pc = "ready" /\ FitCall
       \/ EpochBegin
       \/ TrainStep
       \/ EpochEnd
       \/ FitReturn

\* lines 242-244: predict on the training set, accuracy
MainPredictTrain ==
    /\ main.pc = "np" /\ pc = "returned"
    /\ LET y_pred_train == PredictLabels(main.X_train, <<w, b>>)
       IN  main' = [main EXCEPT
                       !.pc = "np_train_reported",
                       !.reports = Append(@, <<"np-train",
                                    Accuracy(main.y_train, y_pred_train)>>)]
    /\ UNCHANGED <<trainerVars, runs, ds, sg>>

\* lines 245-247: predict on the test set, accuracy
MainPredictTest ==
    /\ main.pc = "np_train_reported"
    /\ LET y_pred_test == PredictLabels(main.X_test, <<w, b>>)
       IN  main' = [main EXCEPT
                       !.pc = "np_test_reported",
                       !.reports = Append(@, <<"np-test",
                                    Accuracy(main.y_test, y_pred_test)>>)]
    /\ UNCHANGED <<trainerVars, runs, ds, sg>>

\* lines 250-251: reset_tf_graph(); logreg_tf = LogisticRegressionTF()
MainNewLogregTF ==
    /\ main.pc = "np_test_reported"
    /\ main' = [main EXCEPT !.pc = "tf", !.tf_seed = Seed, !.np_seed = Seed]
    /\ Construct("tf", MainBatchSize, TfLearningRate, MainEpochs,
                 main.X_train, main.y_train)
    /\ UNCHANGED <<runs, ds, sg>>

\* line 256: logreg_tf.predict(X_train).  LogisticRegressionTF defines no
\* predict: the attribute lookup raises AttributeError, which nothing catches,
\* and lines 257-261 are never reached.
MainTfPredictTrain ==
    /\ main.pc = "tf" /\ pc = "returned"
    /\ main' = [main EXCEPT !.pc = "failed"]
    /\ UNCHANGED <<trainerVars, runs, ds, sg>>

MainNext ==
    \/ MainLoad
    \/ MainNewLogreg
    \/ MainTrainer
    \/ MainPredictTrain
    \/ MainPredictTest
    \/ MainNewLogregTF
    \/ MainTfPredictTrain

MainSpec == MainInit /\ [][MainNext]_vars

ReportTags == [k \in 1..Len(main.reports) |-> main.reports[k][1]]

\* C5: a run of main trains the np model, then the tf model, and for each
\* obtains predictions on the training and the test set and reports their
\* accuracy: a run in which no library raises ends with the four reports
\* np-train, np-test, tf-train, tf-test, in that order.
C5_AllFourReports ==
    main.pc \in {"done", "failed"} =>
        ReportTags = <<"np-train", "np-test", "tf-train", "tf-test">>

-----------------------------------------------------------------------------
(* CustomDataset of data_torch.py *)

\* the transforms a caller passes; "none" is None
Transforms == {"none", "double", "negate"}
TargetTransforms == {"none", "ident", "flip", "zero"}

\* values a label slot can hold: an int, or the CustomDataset object itself
IntVal(v) == [type |-> "int", v |-> v]
SelfObject == [type |-> "CustomDataset", v |-> 0]
TypeError == [type |-> "TypeError", v |-> 0]

\* transform(example): lambda x: 2 * x, lambda x: -x
ApplyTransform(t, row) ==
    IF t = "double" THEN [j \in 1..Len(row) |-> 2 * row[j]]
    ELSE [j \in 1..Len(row) |-> -row[j]]

\* target_transform(arg): lambda l: l, lambda l: 1 - l, lambda l: 0.  The
\* subtraction is not defined on a CustomDataset: it raises TypeError.
ApplyTarget(t, arg) ==
    IF t = "ident" THEN arg
    ELSE IF t = "zero" THEN IntVal(0)
    ELSE IF arg.type = "int" THEN IntVal(1 - arg.v) ELSE TypeError

\* __init__(data_reader, transform, target_transform), the reader returning
\* an array of examples and an array of labels
DatasetInit ==
    /\ TrainerIdle
    /\ \E n \in 0..MaxExamples, t \in Transforms, tt \in TargetTransforms :
          ds = [pc |-> "constructed", examples |-> DataX(n),
                labels |-> DataY(n), transform |-> t, target_transform |-> tt,
                call |-> "none", idx |-> 0, result |-> <<>>]
    /\ main = Idle /\ runs = Idle /\ sg = Idle

\* __getitem__(idx) for a valid idx
GetItem(idx) ==
    /\ ds.pc # "idle"
    /\ idx \in 0..(Len(ds.labels) - 1)
    /\ LET example0 == ds.examples[idx + 1]
           label0 == IntVal(ds.labels[idx + 1])
           example == IF ds.transform # "none"
                      THEN ApplyTransform(ds.transform, example0)
                      ELSE example0
           \* label = self.target_transform(self)
           label == IF ds.target_transform # "none"
                    THEN ApplyTarget(ds.target_transform, SelfObject)
                    ELSE label0
       IN  ds' = [ds EXCEPT !.call = "getitem", !.idx = idx,
                            !.pc = IF label = TypeError THEN "raised"
                                   ELSE "returned",
                            !.result = IF label = TypeError THEN <<>>
                                       ELSE <<example, label>>]
    /\ UNCHANGED <<trainerVars, main, runs, sg>>

\* __len__()
DsLen ==
    /\ ds.pc # "idle"
    /\ ds' = [ds EXCEPT !.call = "len", !.pc = "returned",
                        !.result = Len(ds.labels)]
    /\ UNCHANGED <<trainerVars, main, runs, sg>>

DatasetNext ==
    \/ \E idx \in 0..(MaxExamples - 1) : GetItem(idx)
    \/ DsLen

DatasetSpec == DatasetInit /\ [][DatasetNext]_vars

\* C7: __getitem__(idx), for every valid idx, returns (example at idx, label
\* at idx), the example passed through transform when one is set and the label
\* value at idx passed through target_transform when one is set, both
\* unchanged with no transforms; __len__ is the number of loaded labels.
C7_GetItemPair ==
    /\ ds.call = "getitem" =>
          /\ ds.pc = "returned"
          /\ ds.result =
                <<IF ds.transform = "none" THEN ds.examples[ds.idx + 1]
                  ELSE ApplyTransform(ds.transform, ds.examples[ds.idx + 1]),
                  IF ds.target_transform = "none"
                  THEN IntVal(ds.labels[ds.idx + 1])
                  ELSE ApplyTarget(ds.target_transform,
                                   IntVal(ds.labels[ds.idx + 1]))>>
    /\ ds.call = "len" => ds.result = Len(ds.labels)

-----------------------------------------------------------------------------
(* _sigmoid in IEEE double precision, by order of magnitude.                 *)
(*                                                                           *)
(* A double is zero, inf, nan, or positive; a positive one is kept as the    *)
(* power of e it is nearest to: [c |-> "pos", e |-> k, adj |-> a] is exp(k)  *)
(* itself (a = 0), a value in (exp(k), 2 exp(k)] (a = 1), or a value in      *)
(* [exp(k) / 2, exp(k)) (a = -1).  1.0 is exp(0).                            *)

\* np.exp(x) is inf for x >= 710 and 0.0 for x <= -746 (exp(-745) is the
\* smallest subnormal)
ExpMax64 == 709
ExpMin64 == -745

\* 1.0 + exp(-k) rounds to 1.0 from k = 37 on: exp(-37) < 2^-53 < exp(-36)
Absorb64 == 36

Zero64 == [c |-> "zero", e |-> 0, adj |-> 0]
Inf64 == [c |-> "inf", e |-> 0, adj |-> 0]
NaN64 == [c |-> "nan", e |-> 0, adj |-> 0]
Pos64(k, a) ==
    IF k > ExpMax64 THEN Inf64
    ELSE IF k < ExpMin64 THEN Zero64
    ELSE [c |-> "pos", e |-> k, adj |-> a]
One64 == Pos64(0, 0)

\* np.exp on an integer argument
Exp64(x) == Pos64(x, 0)

\* x + y for x, y >= 0: the smaller term is absorbed when it is below half an
\* ulp of the larger one
Add64(x, y) ==
    IF x.c = "nan" \/ y.c = "nan" THEN NaN64
    ELSE IF x.c = "inf" \/ y.c = "inf" THEN Inf64
    ELSE IF x.c = "zero" THEN y
    ELSE IF y.c = "zero" THEN x
    ELSE LET hi == IF x.e >= y.e THEN x ELSE y
             lo == IF x.e >= y.e THEN y ELSE x
         IN  IF hi.e - lo.e > Absorb64 THEN hi ELSE Pos64(hi.e, 1)

\* x / y for x, y >= 0
Div64(x, y) ==
    IF x.c = "nan" \/ y.c = "nan" THEN NaN64
    ELSE IF x.c = "zero" /\ y.c = "zero" THEN NaN64
    ELSE IF x.c = "inf" /\ y.c = "inf" THEN NaN64
    ELSE IF x.c = "zero" \/ y.c = "inf" THEN Zero64
    ELSE IF x.c = "inf" \/ y.c = "zero" THEN Inf64
    ELSE Pos64(x.e - y.e,
               IF x.adj > y.adj THEN 1 ELSE IF x.adj < y.adj THEN -1 ELSE 0)

\* a sigmoid without the stabilization: exp(z) / (1 + exp(z))
SigmoidUnstable64(logit) == Div64(Exp64(logit), Add64(One64, Exp64(logit)))

\* _sigmoid on an integer logit
Sigmoid64(logit) ==
    LET logit_max == Max(0, logit)
        logit_stable == logit - logit_max
    IN  Div64(Exp64(logit_stable),
              Add64(Exp64(-logit_max), Exp64(logit_stable)))

\* the docstring's sigmoid(z) = 1 / (1 + exp(-z)), on the fixed-point grid
SigmoidNaive(logit) == FxDiv(FxOne, FxOne + ExpFx(-logit))

Finite64(x) == x.c \in {"zero", "pos"}
InUnit64(x) == x.c = "zero" \/ (x.c = "pos" /\ (x.e < 0 \/ (x.e = 0 /\ x.adj <= 0)))
Inside64(x) == x.c = "pos" /\ (x.e < 0 \/ (x.e = 0 /\ x.adj < 0))

\* logits tried: the integers up to MaxLogit in size, and every grid point
\* up to ModerateLogit in size
MaxLogit == 800
ModerateLogit == 3

SigmoidInit ==
    /\ TrainerIdle
    /\ \E z \in -MaxLogit..MaxLogit :
       \E q \in IF -ModerateLogit <= z /\ z < ModerateLogit
                THEN (z * FxOne)..(z * FxOne + FxOne - 1) ELSE {z * FxOne} :
          sg = [pc |-> "in", z |-> z, q |-> q, r64 |-> NaN64, rfx |-> 0]
    /\ main = Idle /\ runs = Idle /\ ds = Idle

\* _sigmoid(logit): on the integer logit z in double precision, and on the
\* grid logit q in fixed point
ApplySigmoid ==
    /\ sg.pc = "in"
    /\ sg' = [sg EXCEPT !.pc = "out", !.r64 = Sigmoid64(sg.z),
                        !.rfx = Sigmoid(sg.q)]
    /\ UNCHANGED <<trainerVars, main, runs, ds>>

SigmoidNext == ApplySigmoid

SigmoidSpec == SigmoidInit /\ [][SigmoidNext]_vars

Abs(x) == IF x < 0 THEN -x ELSE x

\* C9 as stated: for every finite logit z, |z| > 700 included, _sigmoid
\* returns a finite value strictly between 0 and 1, never exactly 0 or 1.
C9_StrictlyInside ==
    sg.pc = "out" => Finite64(sg.r64) /\ Inside64(sg.r64)

\* C9 amended: for every finite logit z, |z| > 700 included, _sigmoid returns
\* a finite value in the closed interval [0, 1], never NaN or infinite; it is
\* strictly between 0 and 1 for -745 <= z <= 36, exactly 1.0 from z = 37 on
\* and exactly 0.0 from z = -746 down; for moderate |z| it equals
\* 1 / (1 + exp(-z)) within one step of the grid.
C9_SigmoidInUnitInterval ==
    sg.pc = "out" =>
        /\ Finite64(sg.r64)
        /\ InUnit64(sg.r64)
        /\ ExpMin64 <= sg.z /\ sg.z <= Absorb64 => Inside64(sg.r64)
        /\ sg.z > Absorb64 => sg.r64 = One64
        /\ sg.z < ExpMin64 => sg.r64 = Zero64
        /\ Abs(sg.q) <= ModerateLogit * FxOne =>
              Abs(sg.rfx - SigmoidNaive(sg.q)) <= 1

\* the sigmoid of a logit above 700 has been computed
C9_Witness ==
    sg.pc = "out" /\ sg.z > 700 /\ sg.r64 = One64

====
